---- MODULE Spec2Model ----
(***************************************************************************)
(* State-machine model of benchmark.js: the subprocess runner              *)
(* (measurePerformance), the benchmark tasks and the multi-run loop of     *)
(* main, with the script entry point that catches what main throws.        *)
(*                                                                         *)
(* Text is a sequence of characters.  The environment (exit codes, output  *)
(* chunks, file-system failures, prompt answers, Date.now()) is chosen     *)
(* with \E from small sets.                                                *)
(***************************************************************************)
EXTENDS Integers, Sequences, FiniteSets, TLC

VARIABLES
    testsToRun,         \* answer of the checkbox prompt: task keys, in the order listed
    useLegacyPeerDeps,  \* answer of the --legacy-peer-deps prompt
    runCount,           \* answer of the run-count prompt
    pc,                 \* position of the control flow of the script
    i,                  \* loop counter of main: the current run number
    k,                  \* position in TaskOrder of the next task of the run
    runTimestamp,       \* Date.now() taken at the start of the current run
    results,            \* the in-memory report of the current run
    dirs,               \* run temp directories that exist on disk
    files,              \* report files on disk: filename -> written document
    child,              \* the subprocess of the measurePerformance call in flight
    trace,              \* what the current run did so far, in order
    thrown,             \* the error that escaped main ("none" while none did)
    printed,            \* what console.error printed at the entry point
    exitCode,           \* exit status the process ends with
    abnormal,           \* subprocesses that ended with a non-zero or null code
    mem,                \* memory the host has in use now, in thousandths of a MB
    job                 \* the task followed step by step: its local variables

vars == <<testsToRun, useLegacyPeerDeps, runCount, pc, i, k, runTimestamp, results,
          dirs, files, child, trace, thrown, printed, exitCode, abnormal, mem, job>>

---------------------------------------------------------------------------
\* Bounds of the model.

\* Runs asked for at the run-count prompt: 1..MaxRuns.
MaxRuns == 2

\* Date.now() returns a value in 1..MaxTime.
MaxTime == 2

\* Characters one subprocess writes before it ends.
MaxOutputLen == 4

\* Subprocesses of one invocation that end with a non-zero or null code.
MaxAbnormalExits == 1

\* Tasks ticked at the checkbox prompt, unless all are ticked (the default).
MaxSelected == 2

\* Memory in use on the host: 0..MaxMem thousandths of a MB.
MaxMem == 6

\* A reported duration_s: 0..MaxDuration hundredths of a second.
MaxDuration == 1

---------------------------------------------------------------------------
\* Program constants.

\* The exit code JavaScript reports as null: the child was ended by a signal.
null == -1

imageCount == 200

fileCount == 10000

chunkSize == 500

SCRIPT_VERSION == "2.1.0"

---------------------------------------------------------------------------
\* Text helpers.

\* String.prototype.includes: t occurs in s as a contiguous substring.
\* The empty text is included in every text.
includes(s, t) ==
    \E p \in 0..(Len(s) - Len(t)) : SubSeq(s, p + 1, p + Len(t)) = t

\* Array.prototype.includes.
arrayIncludes(arr, x) ==
    \E p \in 1..Len(arr) : arr[p] = x

\* JavaScript truthiness of the killSignal argument: null (not given) and the
\* empty string are both falsy.
truthy(killSignal) ==
    killSignal.given /\ killSignal.text # <<>>

---------------------------------------------------------------------------
\* Configuration: what the prompts of main can answer.

\* The choices of the checkbox prompt, in the order they are offered.
Choices ==
    <<"cleanInstall", "nextBuild", "typeCheck", "linter",
      "imageProcessing", "fileIo", "heavyScript">>

\* Mutant of TaskOrder: the nextBuild test is placed before the cleanInstall test.
TaskOrderBuildFirst ==
    <<"nextBuild", "cleanInstall", "typeCheck", "linter",
      "imageProcessing", "fileIo", "heavyScript">>

\* The order in which main tests testsToRun.includes(...) and runs the tasks.
TaskOrder ==
    <<"cleanInstall", "nextBuild", "typeCheck", "linter",
      "imageProcessing", "fileIo", "heavyScript">>

Reverse(seq) ==
    [p \in 1..Len(seq) |-> seq[Len(seq) + 1 - p]]

Filter(seq, S) ==
    LET F[n \in 0..Len(seq)] ==
            IF n = 0 THEN <<>>
            ELSE IF seq[n] \in S THEN Append(F[n - 1], seq[n]) ELSE F[n - 1]
    IN  F[Len(seq)]

\* The selections the checkbox prompt can return (validate: at least one), each
\* listed in the order offered and in the opposite order.
Selections ==
    LET Keys == {Choices[p] : p \in 1..Len(Choices)}
    IN  UNION {{Filter(Choices, S), Filter(Reverse(Choices), S)} :
               S \in {T \in (SUBSET Keys) \ {{}} :
                      Cardinality(T) <= MaxSelected \/ T = Keys}}

Selected ==
    {testsToRun[p] : p \in 1..Len(testsToRun)}

\* Date.now() at the start of a run.  The clock is not monotonic and two calls can
\* return the same millisecond.  A reading only names a directory and a file, so
\* all that matters is which earlier readings it equals: it is one of the readings
\* already on disk or in use, or the least value not read yet.
Timestamps ==
    LET used == {f[4] : f \in DOMAIN files} \cup {d[3] : d \in dirs}
        fresh == CHOOSE t \in 1..(MaxTime + 1) : t \notin used /\
                     \A u \in 1..(t - 1) : u \in used
    IN  used \cup {t \in {fresh} : t <= MaxTime}

---------------------------------------------------------------------------
\* Values.

NoKillSignal ==
    [given |-> FALSE, text |-> <<>>]

\* The kill signals a direct caller of measurePerformance passes: none, the empty
\* string and two texts.
KillSignals ==
    {NoKillSignal,
     [given |-> TRUE, text |-> <<>>],
     [given |-> TRUE, text |-> <<"b">>],
     [given |-> TRUE, text |-> <<"a", "b">>]}

\* The chunks a 'data' event carries: non-empty text of one or two characters.
Chunks ==
    LET Alphabet == {"a", "b"}
    IN  {<<c>> : c \in Alphabet} \cup {<<c, d>> : c \in Alphabet, d \in Alphabet}

NoChild ==
    [command |-> "", task |-> "", killSignal |-> NoKillSignal, output |-> <<>>,
     killed |-> FALSE, kills |-> 0, state |-> "none", promise |-> "none",
     exitCode |-> 0, error |-> "none"]

NoResults ==
    [scriptVersion |-> SCRIPT_VERSION, runNumber |-> 0, totalRuns |-> 0,
     benchmarks |-> <<>>, runEndTimeUTC |-> ""]

NoFiles ==
    [f \in {} |-> NoResults]

\* No task is followed step by step.
NoJob ==
    [kind |-> "none"]

Event(ev, what) ==
    [ev |-> ev, what |-> what, code |-> 0]

\* path.join(mainDir, `temp-${runTimestamp}`)
runTempDir(ts) ==
    <<"benchmark-me", "temp", ts>>

\* path.join(runTempDir, 'temp_files') and path.join(runTempDir, 'temp_images')
tempDir(ts, name) ==
    <<"benchmark-me", "temp", ts, name>>

\* fs.rm(dir, { recursive: true, force: true }): dir and all that is under it are
\* gone; a dir that does not exist is no error.
rm(ds, dir) ==
    {d \in ds : ~(Len(d) >= Len(dir) /\ SubSeq(d, 1, Len(dir)) = dir)}

\* path.join(resultsDir, `benchmark-results-${os.hostname()}-${runTimestamp}.json`)
resultsPath(ts) ==
    <<"benchmark-me", "results", "hostname", ts>>

---------------------------------------------------------------------------
\* measurePerformance: spawn, the data handler, the close and error handlers.

\* The promise executor: the child is spawned at the call, nothing is captured yet.
measurePerformance(command, killSignal, task) ==
    [command |-> command, task |-> task, killSignal |-> killSignal, output |-> <<>>,
     killed |-> FALSE, kills |-> 0, state |-> "running", promise |-> "pending",
     exitCode |-> 0, error |-> "none"]

\* Mutant of shouldKill: the killed flag is not consulted.
shouldKillNoLatch(killSignal, killed, output) ==
    truthy(killSignal) /\ includes(output, killSignal.text)

\* The condition under which handleOutput calls child.kill('SIGTERM').
shouldKill(killSignal, killed, output) ==
    truthy(killSignal) /\ ~killed /\ includes(output, killSignal.text)

\* Mutant of handleOutputBody: the promise is resolved as soon as SIGTERM is sent.
handleOutputBodyResolvesOnKill(c, data) ==
    LET output == c.output \o data
        kill == shouldKill(c.killSignal, c.killed, output)
    IN  [c EXCEPT !.output = output,
                  !.killed = @ \/ kill,
                  !.kills = IF kill THEN @ + 1 ELSE @,
                  !.promise = IF kill THEN "resolved" ELSE @]

\* Mutant of handleOutputBody: the kill signal is looked for in the chunk alone.
handleOutputBodyChunkOnly(c, data) ==
    LET output == c.output \o data
        kill == shouldKill(c.killSignal, c.killed, data)
    IN  [c EXCEPT !.output = output,
                  !.killed = @ \/ kill,
                  !.kills = IF kill THEN @ + 1 ELSE @]

\* handleOutput(data), registered for stdout and stderr alike.
handleOutputBody(c, data) ==
    LET output == c.output \o data
        kill == shouldKill(c.killSignal, c.killed, output)
    IN  [c EXCEPT !.output = output,
                  !.killed = @ \/ kill,
                  !.kills = IF kill THEN @ + 1 ELSE @]

\* Mutant of closeHandler: a non-zero code rejects the promise.
closeHandlerRejects(c, code) ==
    [c EXCEPT !.state = "closed",
              !.exitCode = code,
              !.error = IF code \notin {0, null} THEN "TaskExitError" ELSE @,
              !.promise = IF code \notin {0, null} THEN "rejected" ELSE "resolved"]

\* Mutant of closeHandler: the exit is noted and the promise is left pending.
closeHandlerLeavesPending(c, code) ==
    [c EXCEPT !.state = "closed",
              !.exitCode = code]

\* child.on('close', code): resolves with the result, whatever the code.
closeHandler(c, code) ==
    [c EXCEPT !.state = "closed",
              !.exitCode = code,
              !.promise = IF @ = "pending" THEN "resolved" ELSE @]

\* Mutant of errorHandler: the error is logged and the promise resolved.
errorHandlerResolves(c) ==
    [c EXCEPT !.state = "failed",
              !.promise = IF @ = "pending" THEN "resolved" ELSE @]

\* child.on('error', err): rejects with the error.
errorHandler(c) ==
    [c EXCEPT !.state = "failed",
              !.error = IF c.promise = "pending" THEN "SpawnError" ELSE @,
              !.promise = IF @ = "pending" THEN "rejected" ELSE @]

\* The object the close handler resolves with.
performanceResult(c) ==
    [command |-> c.command, exitCode |-> c.exitCode]

---------------------------------------------------------------------------
\* Initial states.

\* The script is started: the prompts will answer testsToRun, useLegacyPeerDeps
\* and runCount, the results directory holds no report yet.
InitScript ==
    /\ testsToRun \in Selections
    /\ useLegacyPeerDeps \in BOOLEAN
    /\ runCount \in 1..MaxRuns
    /\ pc = "boot"
    /\ child = NoChild

\* measurePerformance is called on its own with a kill signal.
InitDirect ==
    /\ testsToRun = <<>>
    /\ useLegacyPeerDeps = FALSE
    /\ runCount = 0
    /\ pc = "direct"
    /\ \E killSignal \in KillSignals :
           child = measurePerformance("server", killSignal, "direct")

Init ==
    /\ InitScript \/ InitDirect
    /\ i = 0
    /\ k = 0
    /\ runTimestamp = 0
    /\ results = NoResults
    /\ dirs = {}
    /\ files = NoFiles
    /\ trace = <<>>
    /\ thrown = "none"
    /\ printed = <<>>
    /\ exitCode = 0
    /\ abnormal = 0
    /\ mem = 0
    /\ job = NoJob

---------------------------------------------------------------------------
\* The subprocess: the events the child emits while a call is in flight.

\* The positions at which main awaits a measurePerformance promise.
WaitPcs ==
    {"ci_cache", "ci_install", "nb_install", "nb_build", "typeCheck", "linter"}

\* Characters a child writes: up to MaxOutputLen for the call made on its own, one
\* chunk of one character for the commands main runs (it passes no kill signal).
ChunksNow ==
    IF pc = "direct"
    THEN {d \in Chunks : Len(child.output) + Len(d) <= MaxOutputLen}
    ELSE {d \in {<<"a">>} : child.output = <<>>}

\* A 'data' event of stdout or stderr.
handleOutput ==
    /\ child.state = "running"
    /\ \E data \in ChunksNow :
           child' = handleOutputBody(child, data)
    /\ UNCHANGED <<mem, job, testsToRun, useLegacyPeerDeps, runCount, pc, i, k,
                   runTimestamp, results, dirs, files, trace, thrown, printed,
                   exitCode, abnormal>>

\* The codes a child can end with: 0, a non-zero code, or null (ended by a signal).
ExitOutcomes ==
    {0} \cup (IF abnormal < MaxAbnormalExits THEN {1, null} ELSE {})

\* The 'close' event.
ChildClose ==
    /\ child.state = "running"
    /\ \E code \in ExitOutcomes :
           /\ child' = closeHandler(child, code)
           /\ trace' = Append(trace, [ev |-> "exit", what |-> child.command,
                                       code |-> code])
           /\ abnormal' = IF code = 0 THEN abnormal ELSE abnormal + 1
    /\ UNCHANGED <<mem, job, testsToRun, useLegacyPeerDeps, runCount, pc, i, k,
                   runTimestamp, results, dirs, files, thrown, printed, exitCode>>

\* The 'error' event: the child could not be spawned, so it wrote nothing.
ChildError ==
    /\ child.state = "running"
    /\ child.output = <<>>
    /\ child' = errorHandler(child)
    /\ UNCHANGED <<mem, job, testsToRun, useLegacyPeerDeps, runCount, pc, i, k,
                   runTimestamp, results, dirs, files, trace, thrown, printed,
                   exitCode, abnormal>>

---------------------------------------------------------------------------
\* Helpers of main and of the tasks.

cacheCleanCommand ==
    "npm cache clean --force"

\* installArgs: 'install', plus '--legacy-peer-deps' when asked for.
installCommand ==
    IF useLegacyPeerDeps THEN "npm install --legacy-peer-deps" ELSE "npm install"

buildCommand ==
    "npx next build"

typeCheckCommand ==
    "npx tsc --noEmit"

lintCommand ==
    "npx next lint"

\* Mutant of nextIndex: the tests are chained with else, so that after the first
\* task that ran no other test is made.
nextIndexElseIf(j) ==
    LET hits == {idx \in j..Len(TaskOrder) : arrayIncludes(testsToRun, TaskOrder[idx])}
    IN  IF hits = {} \/ j > 1 THEN Len(TaskOrder) + 1
        ELSE CHOOSE idx \in hits : \A other \in hits : idx <= other

\* The first position j..Len(TaskOrder) whose testsToRun.includes(...) test passes;
\* Len(TaskOrder) + 1 when none does.
nextIndex(j) ==
    LET hits == {idx \in j..Len(TaskOrder) : arrayIncludes(testsToRun, TaskOrder[idx])}
    IN  IF hits = {} THEN Len(TaskOrder) + 1
        ELSE CHOOSE idx \in hits : \A other \in hits : idx <= other

\* main is about to run the task `key`.
AtTask(key) ==
    /\ pc = "tasks"
    /\ k <= Len(TaskOrder)
    /\ TaskOrder[k] = key

\* results.benchmarks[key] = result: a new key is added last, an old one replaced.
assignBenchmark(benchmarks, key, result) ==
    IF \E p \in 1..Len(benchmarks) : benchmarks[p].key = key
    THEN [p \in 1..Len(benchmarks) |->
              IF benchmarks[p].key = key THEN [key |-> key, result |-> result]
              ELSE benchmarks[p]]
    ELSE Append(benchmarks, [key |-> key, result |-> result])

\* JSON.stringify(results, null, 2): every property of the report is a string, a
\* number, null or a nested object, so each is written, in insertion order.
JSONStringify(r) ==
    [scriptVersion |-> r.scriptVersion, runNumber |-> r.runNumber,
     totalRuns |-> r.totalRuns, benchmarks |-> r.benchmarks,
     runEndTimeUTC |-> r.runEndTimeUTC]

\* fs.writeFile(path, document): creates the file or replaces its content.
writeFile(fs, path, document) ==
    [f \in DOMAIN fs \cup {path} |-> IF f = path THEN document ELSE fs[f]]

cleanInstallResult ==
    [command |-> "Clean Install (cache, folders, install)",
     subTasks |-> <<"deleteNodeModules", "deleteNextFolder", "npmCacheClean",
                    "npmInstall">>]

\* Mutant of imageProcessingResult: the subtasks are listed resize first.
imageProcessingResultResizeFirst ==
    [command |-> "Image Processing", amountOfProcessedItems |-> imageCount,
     subTasks |-> <<"resizeImages", "generateImages">>]

imageProcessingResult ==
    [command |-> "Image Processing", amountOfProcessedItems |-> imageCount,
     subTasks |-> <<"generateImages", "resizeImages">>]

fileIoResult ==
    [command |-> "File I/O", amountOfProcessedItems |-> fileCount,
     subTasks |-> <<"createFiles", "deleteFiles">>]

\* Mutant of heavyScriptResult: the record has the fields of a subprocess result.
heavyScriptResultWithExitCode ==
    [command |-> "Heavy Node.js Script (in-process prime calculation)",
     exitCode |-> 0]

heavyScriptResult ==
    [command |-> "Heavy Node.js Script (in-process prime calculation)"]

\* An error leaves main: nothing else of the run is executed.
Throw(err) ==
    /\ pc' = "thrown"
    /\ thrown' = err

\* The task's result is stored and main goes on to the next selected task.
Store(key, result) ==
    /\ results' = [results EXCEPT
                       !.benchmarks = assignBenchmark(@, key, result)]
    /\ k' = nextIndex(k + 1)
    /\ pc' = "tasks"

---------------------------------------------------------------------------
\* The script: dependency check, main, the entry point.

\* checkAndInstallDependencies: returns when nothing is missing; otherwise asks,
\* installs and exits 0, or exits 1 (install failed or declined).
checkAndInstallDependencies ==
    /\ pc = "boot"
    /\ \E missing \in BOOLEAN, answer \in BOOLEAN, installed \in BOOLEAN :
           IF ~missing
           THEN pc' = "main" /\ exitCode' = exitCode
           ELSE pc' = "exited" /\ exitCode' = IF answer /\ installed THEN 0 ELSE 1
    /\ UNCHANGED <<mem, job, testsToRun, useLegacyPeerDeps, runCount, i, k,
                   runTimestamp, results, dirs, files, child, trace, thrown,
                   printed, abnormal>>

\* main up to the loop: the prompts (answered in the initial state) and
\* fs.mkdir(resultsDir), which can fail.
mainStart ==
    /\ pc = "main"
    /\ \E ok \in BOOLEAN :
           IF ok
           THEN pc' = "loop" /\ i' = 1 /\ thrown' = thrown
           ELSE Throw("MkdirError") /\ i' = i
    /\ UNCHANGED <<mem, job, testsToRun, useLegacyPeerDeps, runCount, k,
                   runTimestamp, results, dirs, files, child, trace, printed,
                   exitCode, abnormal>>

\* The head of one iteration: Date.now(), fs.mkdir(runTempDir), the new report.
startRun ==
    /\ pc = "loop"
    /\ i <= runCount
    /\ \E ts \in Timestamps, ok \in BOOLEAN :
           /\ runTimestamp' = ts
           /\ IF ok
              THEN /\ dirs' = dirs \cup {runTempDir(ts)}
                   /\ results' = [NoResults EXCEPT !.runNumber = i,
                                                   !.totalRuns = runCount]
                   /\ trace' = <<Event("mkdir", "runTempDir")>>
                   /\ k' = nextIndex(1)
                   /\ pc' = "tasks"
                   /\ thrown' = thrown
              ELSE /\ Throw("ScratchAllocError")
                   /\ trace' = <<>>
                   /\ UNCHANGED <<dirs, results, k>>
    /\ UNCHANGED <<mem, job, testsToRun, useLegacyPeerDeps, runCount, i, files,
                   child, printed, exitCode, abnormal>>

\* runCleanInstall up to its first await: the cache clean is spawned.  (Before it,
\* node_modules and .next are deleted when present; they lie in the project
\* directory, which is no part of the state.)
runCleanInstall ==
    /\ AtTask("cleanInstall")
    /\ trace' = trace \o <<Event("task", "cleanInstall"),
                           Event("spawn", cacheCleanCommand)>>
    /\ child' = measurePerformance(cacheCleanCommand, NoKillSignal, "cleanInstall")
    /\ pc' = "ci_cache"
    /\ UNCHANGED <<mem, job, testsToRun, useLegacyPeerDeps, runCount, i, k,
                   runTimestamp, results, dirs, files, thrown, printed, exitCode,
                   abnormal>>

\* runCleanInstall after the cache clean resolved: the install.
runCleanInstallInstall ==
    /\ pc = "ci_cache"
    /\ child.promise = "resolved"
    /\ trace' = Append(trace, Event("spawn", installCommand))
    /\ child' = measurePerformance(installCommand, NoKillSignal, "cleanInstall")
    /\ pc' = "ci_install"
    /\ UNCHANGED <<mem, job, testsToRun, useLegacyPeerDeps, runCount, i, k,
                   runTimestamp, results, dirs, files, thrown, printed, exitCode,
                   abnormal>>

\* runCleanInstall after the install resolved: its result, stored by main.
runCleanInstallReturn ==
    /\ pc = "ci_install"
    /\ child.promise = "resolved"
    /\ Store("cleanInstall", cleanInstallResult)
    /\ trace' = Append(trace, Event("stored", "cleanInstall"))
    /\ child' = NoChild
    /\ UNCHANGED <<mem, job, testsToRun, useLegacyPeerDeps, runCount, i,
                   runTimestamp, dirs, files, thrown, printed, exitCode, abnormal>>

\* runNextBuild up to its await: the build is spawned (after .next, in the project
\* directory, is deleted when present).
runNextBuild(before) ==
    /\ trace' = before \o <<Event("task", "nextBuild"), Event("spawn", buildCommand)>>
    /\ child' = measurePerformance(buildCommand, NoKillSignal, "nextBuild")
    /\ pc' = "nb_build"

\* Mutant of installFirst: the answer is not consulted.
installFirstAlways(confirmInstall) ==
    TRUE

\* if (confirmInstall): whether main runs "npm install" before the build.
installFirst(confirmInstall) ==
    confirmInstall

\* The nextBuild branch of main: without cleanInstall it asks whether to install
\* first; then it calls runNextBuild.
nextBuild ==
    /\ AtTask("nextBuild")
    /\ IF ~arrayIncludes(testsToRun, "cleanInstall")
       THEN \E confirmInstall \in BOOLEAN :
                LET asked == Append(trace, Event("confirm",
                                 IF confirmInstall THEN "yes" ELSE "no"))
                IN  IF installFirst(confirmInstall)
                    THEN /\ trace' = Append(asked, Event("spawn", installCommand))
                         /\ child' = measurePerformance(installCommand, NoKillSignal,
                                                        "prerequisite")
                         /\ pc' = "nb_install"
                    ELSE runNextBuild(asked)
       ELSE runNextBuild(trace)
    /\ UNCHANGED <<mem, job, testsToRun, useLegacyPeerDeps, runCount, i, k,
                   runTimestamp, results, dirs, files, thrown, printed, exitCode,
                   abnormal>>

\* The prerequisite install resolved: its result is dropped, the build starts.
nextBuildAfterInstall ==
    /\ pc = "nb_install"
    /\ child.promise = "resolved"
    /\ runNextBuild(trace)
    /\ UNCHANGED <<mem, job, testsToRun, useLegacyPeerDeps, runCount, i, k,
                   runTimestamp, results, dirs, files, thrown, printed, exitCode,
                   abnormal>>

\* runTypeScriptCheck: one measurePerformance call.
runTypeScriptCheck ==
    /\ AtTask("typeCheck")
    /\ trace' = trace \o <<Event("task", "typeCheck"), Event("spawn", typeCheckCommand)>>
    /\ child' = measurePerformance(typeCheckCommand, NoKillSignal, "typeCheck")
    /\ pc' = "typeCheck"
    /\ UNCHANGED <<mem, job, testsToRun, useLegacyPeerDeps, runCount, i, k,
                   runTimestamp, results, dirs, files, thrown, printed, exitCode,
                   abnormal>>

\* runLinterTest: one measurePerformance call.
runLinterTest ==
    /\ AtTask("linter")
    /\ trace' = trace \o <<Event("task", "linter"), Event("spawn", lintCommand)>>
    /\ child' = measurePerformance(lintCommand, NoKillSignal, "linter")
    /\ pc' = "linter"
    /\ UNCHANGED <<mem, job, testsToRun, useLegacyPeerDeps, runCount, i, k,
                   runTimestamp, results, dirs, files, thrown, printed, exitCode,
                   abnormal>>

\* The promise of runNextBuild, runTypeScriptCheck or runLinterTest resolved: main
\* stores the resolved object under the task's key.
storeResolved ==
    /\ pc \in {"nb_build", "typeCheck", "linter"}
    /\ child.promise = "resolved"
    /\ Store(child.task, performanceResult(child))
    /\ trace' = Append(trace, Event("stored", child.task))
    /\ child' = NoChild
    /\ UNCHANGED <<mem, job, testsToRun, useLegacyPeerDeps, runCount, i,
                   runTimestamp, dirs, files, thrown, printed, exitCode, abnormal>>

\* An awaited measurePerformance promise rejected: the error leaves the task and
\* main (neither has a try/catch).
awaitRejected ==
    /\ pc \in WaitPcs
    /\ child.promise = "rejected"
    /\ Throw(child.error)
    /\ UNCHANGED <<mem, job, testsToRun, useLegacyPeerDeps, runCount, i, k,
                   runTimestamp, results, dirs, files, child, trace, printed,
                   exitCode, abnormal>>

\* runImageProcessingTest: returns its result, or throws when fs.mkdir or one of
\* the sharp promises rejects.
runImageProcessingTest ==
    /\ AtTask("imageProcessing")
    /\ \E ok \in BOOLEAN :
           IF ok
           THEN /\ Store("imageProcessing", imageProcessingResult)
                /\ trace' = trace \o <<Event("task", "imageProcessing"),
                                       Event("stored", "imageProcessing")>>
                /\ thrown' = thrown
           ELSE /\ Throw("TaskError")
                /\ trace' = Append(trace, Event("task", "imageProcessing"))
                /\ UNCHANGED <<results, k>>
    /\ UNCHANGED <<mem, job, testsToRun, useLegacyPeerDeps, runCount, i,
                   runTimestamp, dirs, files, child, printed, exitCode, abnormal>>

\* runFileIoTest: returns its result, or throws when fs.mkdir, a write or fs.rm
\* rejects.
runFileIoTest ==
    /\ AtTask("fileIo")
    /\ \E ok \in BOOLEAN :
           IF ok
           THEN /\ Store("fileIo", fileIoResult)
                /\ trace' = trace \o <<Event("task", "fileIo"),
                                       Event("stored", "fileIo")>>
                /\ thrown' = thrown
           ELSE /\ Throw("TaskError")
                /\ trace' = Append(trace, Event("task", "fileIo"))
                /\ UNCHANGED <<results, k>>
    /\ UNCHANGED <<mem, job, testsToRun, useLegacyPeerDeps, runCount, i,
                   runTimestamp, dirs, files, child, printed, exitCode, abnormal>>

\* runHeavyScript: the in-process computation; it starts no subprocess.
runHeavyScript ==
    /\ AtTask("heavyScript")
    /\ Store("heavyScript", heavyScriptResult)
    /\ trace' = trace \o <<Event("task", "heavyScript"), Event("stored", "heavyScript")>>
    /\ UNCHANGED <<mem, job, testsToRun, useLegacyPeerDeps, runCount, i,
                   runTimestamp, dirs, files, child, thrown, printed, exitCode,
                   abnormal>>

\* After the last task: runEndTimeUTC is set and the report is written to
\* resultsPath; fs.writeFile can fail.
persist ==
    /\ pc = "tasks"
    /\ k > Len(TaskOrder)
    /\ results' = [results EXCEPT !.runEndTimeUTC = "set"]
    /\ \E ok \in BOOLEAN :
           IF ok
           THEN /\ files' = writeFile(files, resultsPath(runTimestamp),
                                      JSONStringify(results'))
                /\ trace' = Append(trace, Event("writeFile", "resultsPath"))
                /\ pc' = "cleanup"
                /\ thrown' = thrown
           ELSE /\ Throw("PersistenceError")
                /\ UNCHANGED <<files, trace>>
    /\ UNCHANGED <<mem, job, testsToRun, useLegacyPeerDeps, runCount, i, k,
                   runTimestamp, dirs, child, printed, exitCode, abnormal>>

\* fs.rm(runTempDir, {recursive, force}), the summary, and i++.
cleanup ==
    /\ pc = "cleanup"
    /\ dirs' = rm(dirs, runTempDir(runTimestamp))
    /\ trace' = Append(trace, Event("rm", "runTempDir"))
    /\ i' = i + 1
    /\ pc' = "loop"
    /\ UNCHANGED <<mem, job, testsToRun, useLegacyPeerDeps, runCount, k,
                   runTimestamp, results, files, child, thrown, printed, exitCode,
                   abnormal>>

\* The loop condition fails: main returns and the process ends.
mainReturn ==
    /\ pc = "loop"
    /\ i > runCount
    /\ pc' = "done"
    /\ UNCHANGED <<mem, job, testsToRun, useLegacyPeerDeps, runCount, i, k,
                   runTimestamp, results, dirs, files, child, trace, thrown,
                   printed, exitCode, abnormal>>

\* The entry point: .catch(console.error) prints what main threw; nothing sets the
\* exit status.
entryCatch ==
    /\ pc = "thrown"
    /\ printed' = Append(printed, thrown)
    /\ pc' = "caught"
    /\ UNCHANGED <<mem, job, testsToRun, useLegacyPeerDeps, runCount, i, k,
                   runTimestamp, results, dirs, files, child, trace, thrown,
                   exitCode, abnormal>>

---------------------------------------------------------------------------
Next ==
    \/ handleOutput
    \/ ChildClose
    \/ ChildError
    \/ checkAndInstallDependencies
    \/ mainStart
    \/ startRun
    \/ runCleanInstall
    \/ runCleanInstallInstall
    \/ runCleanInstallReturn
    \/ nextBuild
    \/ nextBuildAfterInstall
    \/ runTypeScriptCheck
    \/ runLinterTest
    \/ storeResolved
    \/ awaitRejected
    \/ runImageProcessingTest
    \/ runFileIoTest
    \/ runHeavyScript
    \/ persist
    \/ cleanup
    \/ mainReturn
    \/ entryCatch

Spec ==
    Init /\ [][Next]_vars

---------------------------------------------------------------------------
\* Properties.

BenchmarkKeys(benchmarks) ==
    {benchmarks[p].key : p \in 1..Len(benchmarks)}

\* The position of a task key among the choices (the declared catalog order).
ChoiceIndex(key) ==
    CHOOSE p \in 1..Len(Choices) : Choices[p] = key

\* How often t occurs in s.
Occurrences(s, t) ==
    Cardinality({p \in 0..(Len(s) - Len(t)) : SubSeq(s, p + 1, p + Len(t)) = t})

\* A run went through its whole loop body (i was incremented after it).
RunFinished ==
    pc \in {"loop", "done"} /\ i > 1

\* The errors that abort a run: spawn-level and I/O errors.
FatalErrors ==
    {"SpawnError", "MkdirError", "ScratchAllocError", "PersistenceError", "TaskError"}

\* C1: for a call with a (non-empty) kill signal, SIGTERM has been sent exactly once
\* if the kill signal occurs in the accumulated output, however often it occurs and
\* whatever arrived afterwards, and not at all if it does not occur.
C1_KillSentExactlyOnce ==
    (child.state # "none" /\ truthy(child.killSignal)) =>
        child.kills = (IF includes(child.output, child.killSignal.text) THEN 1 ELSE 0)

\* C1 witness: the call ended, the kill signal occurs twice in the output, one kill.
C1_Witness ==
    /\ child.state = "closed"
    /\ truthy(child.killSignal)
    /\ Occurrences(child.output, child.killSignal.text) >= 2
    /\ child.kills = 1

\* C2: in every run the tasks that started are selected tasks and started in the
\* declared catalog order, whatever order testsToRun lists them in; when
\* cleanInstall is selected its result is stored before nextBuild starts.
C2_TasksStartInCatalogOrder ==
    /\ \A a \in DOMAIN trace :
           trace[a].ev = "task" => trace[a].what \in Selected
    /\ \A a \in DOMAIN trace, b \in DOMAIN trace :
           (a < b /\ trace[a].ev = "task" /\ trace[b].ev = "task") =>
               ChoiceIndex(trace[a].what) < ChoiceIndex(trace[b].what)
    /\ \A b \in DOMAIN trace :
           (trace[b] = Event("task", "nextBuild") /\ "cleanInstall" \in Selected) =>
               \E x \in 1..(b - 1), a \in 1..(b - 1) :
                   /\ x < a
                   /\ trace[x].ev = "exit" /\ trace[x].what = installCommand
                   /\ trace[a] = Event("stored", "cleanInstall")

\* C2 witness: nextBuild is listed before cleanInstall and nextBuild has started.
C2_Witness ==
    /\ Len(testsToRun) >= 2
    /\ testsToRun[1] = "nextBuild"
    /\ testsToRun[2] = "cleanInstall"
    /\ \E b \in DOMAIN trace : trace[b] = Event("task", "nextBuild")

\* C3: a non-zero exit code never aborts a run: a closed child's promise is
\* resolved, main is left only by a spawn-level or I/O error, and a run that went
\* through has stored every selected task, written its report and removed its
\* temp directory.
C3_NonZeroExitDoesNotAbort ==
    /\ child.state = "closed" => child.promise = "resolved"
    /\ pc \in {"thrown", "caught"} => thrown \in FatalErrors
    /\ RunFinished =>
           /\ BenchmarkKeys(results.benchmarks) = Selected
           /\ resultsPath(runTimestamp) \in DOMAIN files
           /\ files[resultsPath(runTimestamp)] = JSONStringify(results)
           /\ runTempDir(runTimestamp) \notin dirs

\* C3 witness: a run went through in which a command exited with code 1 and a
\* later task was started after that.
C3_Witness ==
    /\ RunFinished
    /\ \E a \in DOMAIN trace, b \in DOMAIN trace :
           /\ a < b
           /\ trace[a].ev = "exit" /\ trace[a].code = 1
           /\ trace[b].ev = "task"

\* C4 (as claimed): when a run has ended, by going through or by a task that threw
\* (spawn error, image or file failure), its temp directory is deleted.
C4_ScratchRemovedOnEveryPath ==
    (RunFinished \/ (pc = "caught" /\ thrown \in {"SpawnError", "TaskError"})) =>
        runTempDir(runTimestamp) \notin dirs

\* C5: once a child could not be spawned, the call is rejected with that error, the
\* spawn is the last thing the run did (no later task, no report written), and main
\* is left with that error.
C5_SpawnErrorAbortsRun ==
    child.state = "failed" =>
        /\ child.promise = "rejected"
        /\ child.error = "SpawnError"
        /\ pc \in WaitPcs \cup {"thrown", "caught", "direct"}
        /\ pc \in {"thrown", "caught"} => thrown = "SpawnError"
        /\ pc # "direct" => trace[Len(trace)] = Event("spawn", child.command)
        /\ \A f \in DOMAIN files : files[f].runNumber # i

\* C5 witness: in the second run the first of two selected tasks could not spawn
\* its command and the script has ended.
C5_Witness ==
    /\ pc = "caught"
    /\ child.state = "failed"
    /\ i = 2
    /\ Len(testsToRun) = 2
    /\ child.task = TaskOrder[nextIndex(1)]

\* C6 (as claimed): when a fatal error escaped a run (the run was started and main
\* was left from inside it), no further run is started, the error is printed and
\* the process ends with a non-zero exit status.
C6_FatalErrorExitsNonZero ==
    (pc = "caught" /\ i >= 1) =>
        /\ thrown \in FatalErrors
        /\ results.runNumber <= i
        /\ printed = <<thrown>>
        /\ exitCode # 0

\* C7: without cleanInstall selected, "npm install" is spawned only right after a
\* yes answer; after a yes answer it has been spawned and has exited before the
\* build is spawned; and no report has a cleanInstall key.  With cleanInstall
\* selected the question is not asked and "npm install" follows the cache clean.
C7_PrerequisiteInstall ==
    LET yes == Event("confirm", "yes")
        answered == \E y \in DOMAIN trace : trace[y] = yes
    IN  /\ \A s \in DOMAIN trace :
               trace[s] = Event("spawn", installCommand) =>
                   /\ s > 1
                   /\ IF "cleanInstall" \in Selected
                      THEN trace[s - 1].ev = "exit" /\ trace[s - 1].what = cacheCleanCommand
                      ELSE trace[s - 1] = yes
        /\ \A y \in DOMAIN trace :
               trace[y].ev = "confirm" =>
                   "nextBuild" \in Selected /\ "cleanInstall" \notin Selected
        /\ "cleanInstall" \notin Selected =>
               /\ \A b \in DOMAIN trace :
                      (trace[b] = Event("spawn", buildCommand) /\ answered) =>
                          \E s \in 1..(b - 1), x \in 1..(b - 1) :
                              /\ s < x
                              /\ trace[s] = Event("spawn", installCommand)
                              /\ trace[x].ev = "exit" /\ trace[x].what = installCommand
               /\ "cleanInstall" \notin BenchmarkKeys(results.benchmarks)
               /\ \A f \in DOMAIN files :
                      "cleanInstall" \notin BenchmarkKeys(files[f].benchmarks)

\* C7 witness: the answer was yes, the build ran and its result is in the written
\* report of a run that went through.
C7_Witness ==
    /\ RunFinished
    /\ \E y \in DOMAIN trace : trace[y] = Event("confirm", "yes")
    /\ \E b \in DOMAIN trace : trace[b] = Event("stored", "nextBuild")
    /\ "nextBuild" \in BenchmarkKeys(files[resultsPath(runTimestamp)].benchmarks)

\* C8 (as claimed): when main has returned after runCount runs, exactly runCount
\* report files exist, whatever Date.now() returned at the start of each run.
C8_OneReportFilePerRun ==
    pc = "done" => Cardinality(DOMAIN files) = runCount

\* C9: the keys of the benchmarks of every written report are exactly the selected
\* task keys, each once; with heavyScript alone selected the one result has neither
\* amountOfProcessedItems nor exitCode.
C9_ReportKeysAreTheSelection ==
    \A f \in DOMAIN files :
        LET benchmarks == files[f].benchmarks
        IN  /\ BenchmarkKeys(benchmarks) = Selected
            /\ Len(benchmarks) = Cardinality(Selected)
            /\ Selected = {"heavyScript"} =>
                   /\ benchmarks[1].key = "heavyScript"
                   /\ "amountOfProcessedItems" \notin DOMAIN benchmarks[1].result
                   /\ "exitCode" \notin DOMAIN benchmarks[1].result

\* C9 witness: a report was written with heavyScript alone selected.
C9_Witness ==
    /\ Selected = {"heavyScript"}
    /\ DOMAIN files # {}

\* The selected task a command of the run was executed for.
TaskOfCommand(command) ==
    IF command \in {cacheCleanCommand, installCommand} THEN "cleanInstall"
    ELSE IF command = buildCommand THEN "nextBuild"
    ELSE IF command = typeCheckCommand THEN "typeCheck"
    ELSE "linter"

\* C10 (as claimed): in the written report of a run that went through, every
\* non-zero exit code of a command run for a selected task is the exitCode of that
\* task's result.
C10_NonZeroExitCodeRecorded ==
    RunFinished =>
        \A x \in DOMAIN trace :
            (/\ trace[x].ev = "exit"
             /\ trace[x].code \notin {0, null}
             /\ TaskOfCommand(trace[x].what) \in Selected) =>
                \E p \in DOMAIN files[resultsPath(runTimestamp)].benchmarks :
                    LET entry == files[resultsPath(runTimestamp)].benchmarks[p]
                    IN  /\ entry.key = TaskOfCommand(trace[x].what)
                        /\ "exitCode" \in DOMAIN entry.result
                        /\ entry.result.exitCode = trace[x].code

\* C11 (as claimed): a call that resolved with exitCode null is one the harness
\* ended itself: it sent SIGTERM after the kill signal occurred in the output.
C11_NullExitCodeOnlyAfterHarnessKill ==
    (child.state = "closed" /\ performanceResult(child).exitCode = null) =>
        /\ child.kills = 1
        /\ includes(child.output, child.killSignal.text)

---------------------------------------------------------------------------
\* Memory accounting: one task of each kind, followed from its first memory sample
\* to the object it returns, while the memory in use on the host changes.

mainVars == <<testsToRun, useLegacyPeerDeps, runCount, pc, i, k, runTimestamp,
              results, dirs, files, child, trace, thrown, printed, exitCode,
              abnormal>>

\* No script is running: the task is called on its own.
NoMain ==
    /\ testsToRun = <<>>
    /\ useLegacyPeerDeps = FALSE
    /\ runCount = 0
    /\ pc = "task"
    /\ i = 0
    /\ k = 0
    /\ runTimestamp = 0
    /\ results = NoResults
    /\ dirs = {}
    /\ files = NoFiles
    /\ child = NoChild
    /\ trace = <<>>
    /\ thrown = "none"
    /\ printed = <<>>
    /\ exitCode = 0
    /\ abnormal = 0

abs(x) ==
    IF x < 0 THEN -x ELSE x

\* parseFloat(x.toFixed(2)), for x in thousandths: the nearest hundredth, a half
\* rounded away from zero (toFixed formats the magnitude and prefixes the sign).
toFixed2(x) ==
    LET n == (abs(x) + 5) \div 10
    IN  IF x < 0 THEN -(n * 10) ELSE n * 10

\* getMemoryUsage(): used = total - free, as the host reports it now.
getMemoryUsage ==
    [used |-> mem]

\* Mutant of memoryUsage_MB: the operands of the subtraction are exchanged.
memoryUsageSwapped(startMem, endMem) ==
    toFixed2(startMem.used - endMem.used)

\* memoryUsage_MB: parseFloat((endMem.used - startMem.used).toFixed(2))
memoryUsage_MB(startMem, endMem) ==
    toFixed2(endMem.used - startMem.used)

\* The memory properties every returned object has.
memoryFields(startMem, endMem) ==
    [startMemory_MB |-> startMem.used,
     endMemory_MB |-> endMem.used,
     memoryUsage_MB |-> memoryUsage_MB(startMem, endMem)]

\* The functions that sample memory: measurePerformance and the four tasks that
\* do their own sampling.
TaskKinds ==
    {"measurePerformance", "cleanInstall", "fileIo", "imageProcessing", "heavyScript"}

\* The object the function of that kind returns (resolves with).
taskResult(kind, startMem, endMem) ==
    (CASE kind = "measurePerformance" ->
              performanceResult(closeHandler(
                  measurePerformance(typeCheckCommand, NoKillSignal, "typeCheck"), 0))
       [] kind = "cleanInstall" -> cleanInstallResult
       [] kind = "fileIo" -> fileIoResult
       [] kind = "imageProcessing" -> imageProcessingResult
       [] kind = "heavyScript" -> heavyScriptResult)
    @@ memoryFields(startMem, endMem)

InitMemory ==
    /\ NoMain
    /\ mem \in 0..MaxMem
    /\ \E kind \in TaskKinds :
           job = [kind |-> kind, at |-> "called", startMem |-> [used |-> 0],
                  endMem |-> [used |-> 0], log |-> <<>>, result |-> [command |-> ""]]

\* The host's memory in use changes (other processes, the task's own work).
memoryChanges ==
    /\ job.kind \in TaskKinds
    /\ \E m \in (0..MaxMem) \ {mem} : mem' = m
    /\ UNCHANGED <<job, mainVars>>

\* The head of the function: const startMem = getMemoryUsage(), then its work
\* starts (the spawn, the deletions, fs.mkdir, the computation).
taskBegins ==
    /\ job.kind \in TaskKinds
    /\ job.at = "called"
    /\ job' = [job EXCEPT !.at = "working",
                          !.startMem = getMemoryUsage,
                          !.log = <<[ev |-> "sample", used |-> mem],
                                    [ev |-> "work begins", used |-> mem]>>]
    /\ UNCHANGED <<mem, mainVars>>

\* The work is over: 'close' was emitted, the install resolved, the directory is
\* deleted, the resizes are done, findPrimes returned.
taskWorkEnds ==
    /\ job.kind \in TaskKinds
    /\ job.at = "working"
    /\ job' = [job EXCEPT !.at = "worked",
                          !.log = Append(@, [ev |-> "work ends", used |-> mem])]
    /\ UNCHANGED <<mem, mainVars>>

\* The tail of the function: const endMem = getMemoryUsage() and the returned
\* object.
taskReturns ==
    /\ job.kind \in TaskKinds
    /\ job.at = "worked"
    /\ LET endMem == getMemoryUsage
       IN  job' = [job EXCEPT !.at = "returned",
                              !.endMem = endMem,
                              !.log = Append(@, [ev |-> "sample", used |-> mem]),
                              !.result = taskResult(job.kind, job.startMem, endMem)]
    /\ UNCHANGED <<mem, mainVars>>

NextMemory ==
    \/ memoryChanges
    \/ taskBegins
    \/ taskWorkEnds
    \/ taskReturns

SpecMemory ==
    InitMemory /\ [][NextMemory]_vars

\* C12: the object a task of any kind returns has memoryUsage_MB equal to
\* endMemory_MB - startMemory_MB rounded to the nearest hundredth (it can be
\* negative); startMemory_MB is the reading taken before the work began and
\* endMemory_MB the reading taken after it ended.
C12_MemoryDeltaIsEndMinusStart ==
    (job.kind \in TaskKinds /\ job.at = "returned") =>
        LET r == job.result
            delta == r.endMemory_MB - r.startMemory_MB
        IN  /\ r.memoryUsage_MB % 10 = 0
            /\ abs(r.memoryUsage_MB - delta) <= 5
            /\ Len(job.log) = 4
            /\ job.log[1] = [ev |-> "sample", used |-> r.startMemory_MB]
            /\ job.log[2].ev = "work begins"
            /\ job.log[3].ev = "work ends"
            /\ job.log[4] = [ev |-> "sample", used |-> r.endMemory_MB]

\* C12 witness: the clean install returned, memory in use fell by 6 thousandths
\* during it, and the reported difference is -0.01.
C12_Witness ==
    /\ job.kind = "cleanInstall"
    /\ job.at = "returned"
    /\ job.result.endMemory_MB - job.result.startMemory_MB = -6
    /\ job.result.memoryUsage_MB = -10

---------------------------------------------------------------------------
\* runFileIoTest, followed step by step in a script with only fileIo selected.

\* What no step inside a task function changes.
taskFrame == <<testsToRun, useLegacyPeerDeps, runCount, i, runTimestamp, files,
               child, printed, exitCode, abnormal, mem>>

\* The inner loop: for (let j = i; j < i + chunkSize && j < fileCount; j++), as
\* the range lo..(hi - 1) of the file indices it pushes a write for.
chunk(from) ==
    LET js == {j \in from..(from + chunkSize - 1) : j < fileCount}
    IN  [lo |-> from, hi |-> from + Cardinality(js)]

\* Mutant of chunkStep: the outer loop steps one index too far.
chunkStepSkips(from) ==
    from + chunkSize + 1

\* The outer loop: i += chunkSize.
chunkStep(from) ==
    from + chunkSize

\* Mutant of allSettled: the loop does not wait for the chunk.
allSettledNoAwait(promises) ==
    TRUE

\* await Promise.all(promises) goes on when none of the promises is unsettled (a
\* rejection is writeFileRejects and awaitImagesRejected).
allSettled(promises) ==
    promises = 0

InitFileIo ==
    /\ Init
    /\ testsToRun = <<"fileIo">>

\* runFileIoTest up to its first await: fs.mkdir(tempDir), which can fail.
runFileIoTestMkdir ==
    /\ AtTask("fileIo")
    /\ trace' = Append(trace, Event("task", "fileIo"))
    /\ \E ok \in BOOLEAN :
           IF ok
           THEN /\ dirs' = dirs \cup {tempDir(runTimestamp, "temp_files")}
                /\ job' = [kind |-> "runFileIoTest", run |-> i, at |-> "loop",
                           i |-> 0, chunkPromises |-> 0, inFlight |-> 0,
                           batches |-> <<>>, completed |-> 0, onDisk |-> 0]
                /\ pc' = "fileIo"
                /\ thrown' = thrown
           ELSE /\ Throw("TaskError")
                /\ UNCHANGED <<dirs, job>>
    /\ UNCHANGED <<taskFrame, k, results>>

\* One pass of the outer loop up to its await: the writes of a chunk are issued.
runFileIoTestChunk ==
    /\ pc = "fileIo"
    /\ job.at = "loop"
    /\ job.i < fileCount
    /\ LET c == chunk(job.i)
       IN  job' = [job EXCEPT !.at = "await",
                              !.chunkPromises = c.hi - c.lo,
                              !.inFlight = @ + (c.hi - c.lo),
                              !.batches = Append(@, c)]
    /\ UNCHANGED <<taskFrame, pc, k, results, dirs, trace, thrown>>

\* One fs.writeFile of the chunk in flight resolves: the file is on disk.
writeFileResolves ==
    /\ pc = "fileIo"
    /\ job.at = "await"
    /\ job.inFlight > 0
    /\ job' = [job EXCEPT !.chunkPromises = @ - 1,
                          !.inFlight = @ - 1,
                          !.completed = @ + 1,
                          !.onDisk = @ + 1]
    /\ UNCHANGED <<taskFrame, pc, k, results, dirs, trace, thrown>>

\* One fs.writeFile of the chunk in flight rejects: Promise.all rejects and the
\* error leaves runFileIoTest and main.
writeFileRejects ==
    /\ pc = "fileIo"
    /\ job.at = "await"
    /\ job.inFlight > 0
    /\ Throw("TaskError")
    /\ UNCHANGED <<taskFrame, k, results, dirs, trace, job>>

\* Promise.all(chunkPromises) resolves: the loop goes on with i += chunkSize.
runFileIoTestNextChunk ==
    /\ pc = "fileIo"
    /\ job.at = "await"
    /\ allSettled(job.chunkPromises)
    /\ job' = [job EXCEPT !.at = "loop", !.i = chunkStep(@)]
    /\ UNCHANGED <<taskFrame, pc, k, results, dirs, trace, thrown>>

\* After the loop: fs.rm(tempDir, { recursive, force }), which can fail.
runFileIoTestRm ==
    /\ pc = "fileIo"
    /\ job.at = "loop"
    /\ job.i >= fileCount
    /\ \E ok \in BOOLEAN :
           IF ok
           THEN /\ dirs' = rm(dirs, tempDir(runTimestamp, "temp_files"))
                /\ job' = [job EXCEPT !.at = "deleted", !.onDisk = 0]
                /\ UNCHANGED <<pc, thrown>>
           ELSE /\ Throw("TaskError")
                /\ UNCHANGED <<dirs, job>>
    /\ UNCHANGED <<taskFrame, k, results, trace>>

\* runFileIoTest returns its result, which main stores.
runFileIoTestReturn ==
    /\ pc = "fileIo"
    /\ job.at = "deleted"
    /\ Store("fileIo", fileIoResult)
    /\ trace' = Append(trace, Event("stored", "fileIo"))
    /\ job' = [job EXCEPT !.at = "returned"]
    /\ UNCHANGED <<taskFrame, dirs, thrown>>

NextFileIo ==
    \/ checkAndInstallDependencies
    \/ mainStart
    \/ startRun
    \/ runFileIoTestMkdir
    \/ runFileIoTestChunk
    \/ writeFileResolves
    \/ writeFileRejects
    \/ runFileIoTestNextChunk
    \/ runFileIoTestRm
    \/ runFileIoTestReturn
    \/ persist
    \/ cleanup
    \/ mainReturn
    \/ entryCatch

SpecFileIo ==
    InitFileIo /\ [][NextFileIo]_vars

\* runFileIoTest has returned in the run that main is in or has just finished.
FileIoCompleted ==
    /\ job.kind = "runFileIoTest"
    /\ job.at = "returned"
    /\ job.run = results.runNumber

\* C13: when runFileIoTest has returned, its temp_files directory does not exist
\* and holds no file, amountOfProcessedItems of the stored result is fileCount,
\* and fileCount writes have completed, of fileCount distinct files.
C13_FileIoCleansUpAndCountsFiles ==
    FileIoCompleted =>
        /\ tempDir(runTimestamp, "temp_files") \notin dirs
        /\ job.onDisk = 0
        /\ \E p \in DOMAIN results.benchmarks :
               /\ results.benchmarks[p].key = "fileIo"
               /\ results.benchmarks[p].result.amountOfProcessedItems = fileCount
        /\ job.completed = fileCount
        /\ \A j \in 0..(fileCount - 1) :
               Cardinality({b \in DOMAIN job.batches :
                   job.batches[b].lo <= j /\ j < job.batches[b].hi}) = 1
        /\ \A b \in DOMAIN job.batches :
               job.batches[b].lo >= 0 /\ job.batches[b].hi <= fileCount

\* C13 witness: the second run's File I/O task has returned and its report is
\* written.
C13_Witness ==
    /\ FileIoCompleted
    /\ i = 2
    /\ pc = "cleanup"

\* The writes issued so far: the sizes of the chunks, added up.
Issued(batches) ==
    LET sum[n \in 0..Len(batches)] ==
            IF n = 0 THEN 0 ELSE sum[n - 1] + (batches[n].hi - batches[n].lo)
    IN  sum[Len(batches)]

\* C19: in runFileIoTest at most chunkSize writes are in flight; the writes in
\* flight all belong to the chunk issued last (every write of an earlier chunk has
\* completed); the chunks are disjoint ranges, so no index is written twice, and
\* when the loop is over they cover 0..fileCount-1; and temp_files is deleted only
\* after that, with no write in flight.
C19_WritesInBatchesOfAtMost500 ==
    job.kind = "runFileIoTest" =>
        LET n == Len(job.batches)
            size(b) == job.batches[b].hi - job.batches[b].lo
        IN  /\ job.inFlight <= chunkSize
            /\ \A b \in 1..n : size(b) >= 1 /\ size(b) <= chunkSize
            /\ job.completed + job.inFlight = Issued(job.batches)
            /\ n >= 1 => job.inFlight <= size(n)
            /\ n >= 1 => job.batches[1].lo = 0
            /\ \A b \in 1..(n - 1) : job.batches[b].hi = job.batches[b + 1].lo
            /\ job.at \in {"loop", "await"} =>
                   (job.run = results.runNumber =>
                        tempDir(runTimestamp, "temp_files") \in dirs)
            /\ job.at \in {"deleted", "returned"} =>
                   /\ job.inFlight = 0
                   /\ job.batches[n].hi = fileCount
                   /\ job.completed = fileCount

\* C19 witness: the second chunk was issued, all its writes are in flight and
\* every write of the first chunk has completed.
C19_Witness ==
    /\ job.kind = "runFileIoTest"
    /\ Len(job.batches) = 2
    /\ job.inFlight = chunkSize
    /\ job.completed = chunkSize

---------------------------------------------------------------------------
\* runImageProcessingTest, followed step by step in a script with only
\* imageProcessing selected.

\* The creation loop: for (let i = 0; i < imageCount; i++), image-${i}.jpg.
createIndices ==
    {n \in 0..imageCount : n < imageCount}

\* Mutant of resizeIndices: the loop stops one image early.
resizeIndicesShort ==
    {n \in 0..imageCount : n < imageCount - 1}

\* The resize loop: for (let i = 0; i < imageCount; i++), image-${i}-resized.jpg.
resizeIndices ==
    {n \in 0..imageCount : n < imageCount}

InitImages ==
    /\ Init
    /\ testsToRun = <<"imageProcessing">>

\* runImageProcessingTest up to await Promise.all(createPromises): fs.mkdir(tempDir),
\* which can fail, then one sharp(...).toFile() call for each image.
runImageProcessingTestCreate ==
    /\ AtTask("imageProcessing")
    /\ trace' = Append(trace, Event("task", "imageProcessing"))
    /\ \E ok \in BOOLEAN :
           IF ok
           THEN /\ dirs' = dirs \cup {tempDir(runTimestamp, "temp_images")}
                /\ job' = [kind |-> "runImageProcessingTest", run |-> i,
                           at |-> "create",
                           createIssued |-> createIndices,
                           createPromises |-> Cardinality(createIndices),
                           created |-> 0,
                           processIssued |-> {},
                           processPromises |-> 0,
                           resized |-> 0]
                /\ pc' = "imageProcessing"
                /\ thrown' = thrown
           ELSE /\ Throw("TaskError")
                /\ UNCHANGED <<dirs, job>>
    /\ UNCHANGED <<taskFrame, k, results>>

\* One creation resolves: its image is on disk.
createResolves ==
    /\ pc = "imageProcessing"
    /\ job.createPromises > 0
    /\ job' = [job EXCEPT !.createPromises = @ - 1, !.created = @ + 1]
    /\ UNCHANGED <<taskFrame, pc, k, results, dirs, trace, thrown>>

\* One creation rejects: the awaited Promise.all rejects and the error leaves
\* runImageProcessingTest and main.
createRejects ==
    /\ pc = "imageProcessing"
    /\ job.at = "create"
    /\ job.createPromises > 0
    /\ Throw("TaskError")
    /\ UNCHANGED <<taskFrame, k, results, dirs, trace, job>>

\* Promise.all(createPromises) resolved: one sharp(...).resize().toFile() call for
\* each image.
runImageProcessingTestResize ==
    /\ pc = "imageProcessing"
    /\ job.at = "create"
    /\ allSettled(job.createPromises)
    /\ job' = [job EXCEPT !.at = "resize",
                          !.processIssued = resizeIndices,
                          !.processPromises = Cardinality(resizeIndices)]
    /\ UNCHANGED <<taskFrame, pc, k, results, dirs, trace, thrown>>

\* One resize resolves: its output is on disk.
resizeResolves ==
    /\ pc = "imageProcessing"
    /\ job.processPromises > 0
    /\ job' = [job EXCEPT !.processPromises = @ - 1, !.resized = @ + 1]
    /\ UNCHANGED <<taskFrame, pc, k, results, dirs, trace, thrown>>

\* One resize rejects.
resizeRejects ==
    /\ pc = "imageProcessing"
    /\ job.at = "resize"
    /\ job.processPromises > 0
    /\ Throw("TaskError")
    /\ UNCHANGED <<taskFrame, k, results, dirs, trace, job>>

\* Promise.all(processPromises) resolved: runImageProcessingTest returns its
\* result, which main stores.  temp_images is left to main's cleanup.
runImageProcessingTestReturn ==
    /\ pc = "imageProcessing"
    /\ job.at = "resize"
    /\ allSettled(job.processPromises)
    /\ Store("imageProcessing", imageProcessingResult)
    /\ trace' = Append(trace, Event("stored", "imageProcessing"))
    /\ job' = [job EXCEPT !.at = "returned"]
    /\ UNCHANGED <<taskFrame, dirs, thrown>>

NextImages ==
    \/ checkAndInstallDependencies
    \/ mainStart
    \/ startRun
    \/ runImageProcessingTestCreate
    \/ createResolves
    \/ createRejects
    \/ runImageProcessingTestResize
    \/ resizeResolves
    \/ resizeRejects
    \/ runImageProcessingTestReturn
    \/ persist
    \/ cleanup
    \/ mainReturn
    \/ entryCatch

SpecImages ==
    InitImages /\ [][NextImages]_vars

\* runImageProcessingTest has returned in the run that main is in or has just
\* finished.
ImagesCompleted ==
    /\ job.kind = "runImageProcessingTest"
    /\ job.at = "returned"
    /\ job.run = results.runNumber

\* C14: when runImageProcessingTest has returned (no sharp call rejected), the
\* resized outputs written are as many as amountOfProcessedItems of the stored
\* result, namely imageCount, one for each index 0..imageCount-1 an image was
\* created for; right after the return they are still on disk.
C14_ResizedOutputsEqualItemsProcessed ==
    ImagesCompleted =>
        /\ \E p \in DOMAIN results.benchmarks :
               /\ results.benchmarks[p].key = "imageProcessing"
               /\ results.benchmarks[p].result.amountOfProcessedItems = job.resized
        /\ job.resized = imageCount
        /\ job.processIssued = 0..(imageCount - 1)
        /\ job.processIssued = job.createIssued
        /\ job.processPromises = 0
        /\ (trace # <<>> /\ trace[Len(trace)] = Event("stored", "imageProcessing")) =>
               tempDir(runTimestamp, "temp_images") \in dirs

\* C14 witness: the task has returned in the second run.
C14_Witness ==
    /\ ImagesCompleted
    /\ i = 2
    /\ pc = "tasks"
    /\ job.created = imageCount

---------------------------------------------------------------------------
\* Properties of the report and of the order of a run's steps.

\* The report holds a result for every selected task and its end time.
Populated(r) ==
    /\ BenchmarkKeys(r.benchmarks) = Selected
    /\ r.runEndTimeUTC = "set"

\* C15 (as claimed): a report file is written with the fully populated report of
\* the run; once written, the file is never written again, by that run or a later
\* one, and the run does not change its report in memory after the write.
C15_ReportPopulatedThenImmutable ==
    [][/\ \A f \in DOMAIN files' :
              (f \notin DOMAIN files \/ files'[f] # files[f]) =>
                  /\ Populated(results')
                  /\ files'[f] = JSONStringify(results')
       /\ \A f \in DOMAIN files :
              f \in DOMAIN files' /\ files'[f] = files[f]
       /\ pc = "cleanup" => results' = results]_vars

\* The imageProcessing results in the report in memory and in the written reports.
ImageResults ==
    {results.benchmarks[p].result :
         p \in {q \in DOMAIN results.benchmarks :
                    results.benchmarks[q].key = "imageProcessing"}}
    \cup UNION {{files[f].benchmarks[p].result :
                     p \in {q \in DOMAIN files[f].benchmarks :
                                files[f].benchmarks[q].key = "imageProcessing"}} :
                f \in DOMAIN files}

\* C16 (as claimed): the imageProcessing result lists exactly two subtasks,
\* createImages and resizeImages, in that order.
C16_SubtasksCreateImagesResizeImages ==
    \A r \in ImageResults : r.subTasks = <<"createImages", "resizeImages">>

\* C16 (amended): the imageProcessing result lists exactly two subtasks,
\* generateImages and resizeImages, in that order.
C16_SubtasksGenerateImagesResizeImages ==
    \A r \in ImageResults : r.subTasks = <<"generateImages", "resizeImages">>

\* C16 witness: a report with an imageProcessing result has been written.
C16_Witness ==
    \E f \in DOMAIN files :
        \E p \in DOMAIN files[f].benchmarks :
            /\ files[f].benchmarks[p].key = "imageProcessing"
            /\ Len(files[f].benchmarks[p].result.subTasks) = 2

\* The script with the tasks listed in the order offered and without
\* --legacy-peer-deps, and the call of measurePerformance on its own.
InitSequence ==
    /\ Init
    /\ ~useLegacyPeerDeps
    /\ testsToRun = Filter(Choices, Selected)

SpecSequence ==
    InitSequence /\ [][Next]_vars

\* The events of the run's work: tasks and their subprocesses.
WorkEvents ==
    {"task", "spawn", "exit", "confirm", "stored"}

\* C17: the steps of a run come in the order scratch allocation, tasks, persist,
\* cleanup: the run's temp directory is created first and exists while tasks run;
\* the report is written once, after the result of every selected task was stored,
\* and nothing of a task comes after it; the temp directory is removed right
\* after the write, as the last step; and a run that went through did all of it.
C17_PhasesInOrder ==
    LET n == Len(trace)
        written == {a \in 1..n : trace[a] = Event("writeFile", "resultsPath")}
        removed == {a \in 1..n : trace[a] = Event("rm", "runTempDir")}
    IN  pc # "direct" =>
        /\ n >= 1 =>
               /\ trace[1] = Event("mkdir", "runTempDir")
               /\ \A a \in 2..n : trace[a].ev # "mkdir"
        /\ (n >= 1 /\ removed = {}) => runTempDir(runTimestamp) \in dirs
        /\ \A a \in written :
               /\ written = {a}
               /\ \A key \in Selected :
                      \E b \in 1..(a - 1) : trace[b] = Event("stored", key)
               /\ \A b \in (a + 1)..n : trace[b].ev \notin WorkEvents
               /\ resultsPath(runTimestamp) \in DOMAIN files
        /\ \A a \in removed :
               /\ a = n
               /\ a - 1 \in written
               /\ runTempDir(runTimestamp) \notin dirs
        /\ RunFinished => (n \in removed /\ pc \in {"loop", "done"})
        /\ pc = "cleanup" => (n \in written)
        /\ pc \in WaitPcs \cup {"tasks"} => (n >= 1 /\ written = {} /\ removed = {})

\* C17 witness: the second run went through with two selected tasks.
C17_Witness ==
    /\ RunFinished
    /\ i = 3
    /\ Len(testsToRun) = 2
    /\ Len(trace) >= 7

\* C18: one thing at a time.  A measurePerformance call is resolved only by the
\* child's 'close' event: while the child runs, also after SIGTERM was sent, the
\* promise is pending.  In a run, a subprocess has exited before anything else is
\* spawned, started, stored, written or removed; a task's result is stored before
\* the next task starts; the one child that runs is the one spawned last.  And a
\* task executes only in the run main is in: when the run counter has gone on, the
\* run before has written its report and removed its temp directory.
C18_OneTaskAtATime ==
    LET n == Len(trace)
    IN  /\ child.promise = "resolved" => child.state = "closed"
        /\ (child.state = "running" /\ child.kills > 0) => child.promise = "pending"
        /\ pc # "direct" =>
               /\ \A s \in 1..n, b \in 1..n :
                      (s < b /\ trace[s].ev = "spawn" /\ trace[b].ev # "exit") =>
                          \E x \in (s + 1)..(b - 1) :
                              trace[x].ev = "exit" /\ trace[x].what = trace[s].what
               /\ \A a \in 1..n, b \in 1..n :
                      (a < b /\ trace[a].ev = "task" /\ trace[b].ev = "task") =>
                          \E x \in (a + 1)..(b - 1) :
                              trace[x] = Event("stored", trace[a].what)
               /\ child.state = "running" =>
                      (n >= 1 /\ trace[n] = Event("spawn", child.command))
               /\ results.runNumber <= i
               /\ pc \in WaitPcs \cup {"tasks", "cleanup"} => results.runNumber = i
               /\ (results.runNumber >= 1 /\ results.runNumber < i
                       /\ pc \in {"loop", "done"}) =>
                      /\ resultsPath(runTimestamp) \in DOMAIN files
                      /\ files[resultsPath(runTimestamp)].runNumber = results.runNumber
                      /\ runTempDir(runTimestamp) \notin dirs
                      /\ child.state # "running"

\* C18 witness: in the second run a task's subprocess exited, its result was
\* stored, and the subprocess of the next task is running.
C18_Witness ==
    /\ i = 2
    /\ child.state = "running"
    /\ \E a \in DOMAIN trace, x \in DOMAIN trace, b \in DOMAIN trace :
           /\ a < x /\ x < b
           /\ trace[a].ev = "exit"
           /\ trace[x].ev = "stored"
           /\ trace[b].ev = "task"

\* C20: in runImageProcessingTest no resize is issued before all imageCount
\* creations have resolved; the task returns a result only when every creation and
\* every resize resolved; and when one of them rejects the task throws: the run has
\* no imageProcessing result and writes no report.
C20_ImageBarrierAllOrNothing ==
    /\ job.kind = "runImageProcessingTest" =>
           /\ job.at = "create" =>
                  job.processIssued = {} /\ job.processPromises = 0 /\ job.resized = 0
           /\ (job.processIssued # {} \/ job.processPromises > 0 \/ job.resized > 0) =>
                  job.created = imageCount /\ job.createPromises = 0
           /\ job.at = "returned" =>
                  job.created = imageCount /\ job.resized = imageCount
    /\ "imageProcessing" \in BenchmarkKeys(results.benchmarks) =>
           /\ job.kind = "runImageProcessingTest"
           /\ job.at = "returned"
           /\ job.run = results.runNumber
    /\ (pc \in {"thrown", "caught"} /\ thrown = "TaskError") =>
           /\ "imageProcessing" \notin BenchmarkKeys(results.benchmarks)
           /\ \A f \in DOMAIN files : files[f].runNumber # results.runNumber

\* C20 witness: in the second run every creation and all resizes but one
\* resolved, the last resize rejected, and the script has ended with the error.
C20_Witness ==
    /\ pc = "caught"
    /\ thrown = "TaskError"
    /\ i = 2
    /\ job.kind = "runImageProcessingTest"
    /\ job.at = "resize"
    /\ job.resized = imageCount - 1

---------------------------------------------------------------------------
\* runCleanInstall, followed step by step in a script with only cleanInstall
\* selected.

\* parseFloat(((end - start) / 1000).toFixed(2)) of a step that was executed: the
\* time it took, which can round to 0.
Durations ==
    0..MaxDuration

\* The directories runCleanInstall looks for in the project directory.
ProjectDirs ==
    {"node_modules", ".next"}

\* Mutant of directoryExists: every path is reported as a directory.
directoryExistsAlways(present, name) ==
    TRUE

\* directoryExists(path): fs.stat succeeded and isDirectory(); any error is false.
directoryExists(present, name) ==
    name \in present

\* The object runCleanInstall returns: the four subtasks with their duration_s.
cleanInstallResultTimed(d) ==
    [command |-> cleanInstallResult.command,
     subTasks |-> [p \in 1..Len(cleanInstallResult.subTasks) |->
                       [name |-> cleanInstallResult.subTasks[p], duration_s |-> d[p]]]]

\* The script is run once, with cleanInstall alone selected.
InitCleanInstall ==
    /\ Init
    /\ testsToRun = <<"cleanInstall">>
    /\ runCount = 1

\* runCleanInstall is called: both durations start at 0.  What the project
\* directory holds at that moment is the environment's choice.
runCleanInstallBegin ==
    /\ AtTask("cleanInstall")
    /\ trace' = Append(trace, Event("task", "cleanInstall"))
    /\ \E present \in SUBSET ProjectDirs :
           job' = [kind |-> "runCleanInstall", run |-> i, at |-> "node_modules",
                   found |-> present, present |-> present,
                   nodeModulesDeletionDuration |-> 0,
                   nextFolderDeletionDuration |-> 0]
    /\ pc' = "cleanInstall"
    /\ UNCHANGED <<taskFrame, k, results, dirs, thrown>>

\* if (await directoryExists('node_modules')): fs.rm, which can fail, and its
\* duration; otherwise nothing.
runCleanInstallDeleteNodeModules ==
    /\ pc = "cleanInstall"
    /\ job.at = "node_modules"
    /\ IF directoryExists(job.present, "node_modules")
       THEN \E ok \in BOOLEAN, d \in Durations :
                IF ok
                THEN /\ job' = [job EXCEPT !.at = ".next",
                                           !.present = @ \ {"node_modules"},
                                           !.nodeModulesDeletionDuration = d]
                     /\ trace' = Append(trace, Event("rm", "node_modules"))
                     /\ UNCHANGED <<pc, thrown>>
                ELSE /\ Throw("TaskError")
                     /\ UNCHANGED <<job, trace>>
       ELSE /\ job' = [job EXCEPT !.at = ".next"]
            /\ UNCHANGED <<pc, thrown, trace>>
    /\ UNCHANGED <<taskFrame, k, results, dirs>>

\* if (await directoryExists('.next')): the same for .next.
runCleanInstallDeleteNext ==
    /\ pc = "cleanInstall"
    /\ job.at = ".next"
    /\ IF directoryExists(job.present, ".next")
       THEN \E ok \in BOOLEAN, d \in Durations :
                IF ok
                THEN /\ job' = [job EXCEPT !.at = "cache",
                                           !.present = @ \ {".next"},
                                           !.nextFolderDeletionDuration = d]
                     /\ trace' = Append(trace, Event("rm", ".next"))
                     /\ UNCHANGED <<pc, thrown>>
                ELSE /\ Throw("TaskError")
                     /\ UNCHANGED <<job, trace>>
       ELSE /\ job' = [job EXCEPT !.at = "cache"]
            /\ UNCHANGED <<pc, thrown, trace>>
    /\ UNCHANGED <<taskFrame, k, results, dirs>>

\* The cache cleaning phase: measurePerformance('npm', ['cache', 'clean',
\* '--force']) is called.
runCleanInstallCacheClean ==
    /\ pc = "cleanInstall"
    /\ job.at = "cache"
    /\ job' = [job EXCEPT !.at = "spawned"]
    /\ trace' = Append(trace, Event("spawn", cacheCleanCommand))
    /\ child' = measurePerformance(cacheCleanCommand, NoKillSignal, "cleanInstall")
    /\ pc' = "ci_cache"
    /\ UNCHANGED <<mem, testsToRun, useLegacyPeerDeps, runCount, i, k, runTimestamp,
                   results, dirs, files, thrown, printed, exitCode, abnormal>>

\* The install resolved: runCleanInstall returns its result with the durations of
\* the four subtasks, and main stores it.
runCleanInstallReturnTimed ==
    /\ pc = "ci_install"
    /\ child.promise = "resolved"
    /\ \E npmCacheCleanDuration \in Durations, installDuration \in Durations :
           Store("cleanInstall",
                 cleanInstallResultTimed(<<job.nodeModulesDeletionDuration,
                                           job.nextFolderDeletionDuration,
                                           npmCacheCleanDuration, installDuration>>))
    /\ trace' = Append(trace, Event("stored", "cleanInstall"))
    /\ child' = NoChild
    /\ job' = [job EXCEPT !.at = "returned"]
    /\ UNCHANGED <<mem, testsToRun, useLegacyPeerDeps, runCount, i, runTimestamp,
                   dirs, files, thrown, printed, exitCode, abnormal>>

NextCleanInstall ==
    \/ checkAndInstallDependencies
    \/ mainStart
    \/ startRun
    \/ runCleanInstallBegin
    \/ runCleanInstallDeleteNodeModules
    \/ runCleanInstallDeleteNext
    \/ runCleanInstallCacheClean
    \/ handleOutput
    \/ ChildClose
    \/ ChildError
    \/ runCleanInstallInstall
    \/ runCleanInstallReturnTimed
    \/ awaitRejected
    \/ persist
    \/ cleanup
    \/ mainReturn
    \/ entryCatch

SpecCleanInstall ==
    InitCleanInstall /\ [][NextCleanInstall]_vars

\* Positions in the trace of the run at which the event occurs.
At(ev, what) ==
    {a \in DOMAIN trace : trace[a].ev = ev /\ trace[a].what = what}

\* Every position of A lies before every position of B.
Before(A, B) ==
    \A a \in A, b \in B : a < b

---------------------------------------------------------------------------
\* measurePerformance called on its own, the chunks of stdout and of stderr told
\* apart: every 'data' event is noted with its stream and with the number of
\* SIGTERMs sent once its handler returned.

Streams ==
    {"stdout", "stderr"}

InitStreams ==
    /\ InitDirect
    /\ i = 0
    /\ k = 0
    /\ runTimestamp = 0
    /\ results = NoResults
    /\ dirs = {}
    /\ files = NoFiles
    /\ trace = <<>>
    /\ thrown = "none"
    /\ printed = <<>>
    /\ exitCode = 0
    /\ abnormal = 0
    /\ mem = 0
    /\ job = [kind |-> "measurePerformance", chunks |-> <<>>]

\* The chunk as noted: its stream, its text, the SIGTERMs sent so far.
noted(stream, data, c) ==
    [stream |-> stream, data |-> data, kills |-> c.kills]

\* child.stdout.on('data', handleOutput)
stdoutData ==
    /\ child.state = "running"
    /\ \E data \in ChunksNow :
           /\ child' = handleOutputBody(child, data)
           /\ job' = [job EXCEPT !.chunks = Append(@, noted("stdout", data, child'))]
    /\ UNCHANGED <<mem, testsToRun, useLegacyPeerDeps, runCount, pc, i, k,
                   runTimestamp, results, dirs, files, trace, thrown, printed,
                   exitCode, abnormal>>

\* child.stderr.on('data', handleOutput)
stderrData ==
    /\ child.state = "running"
    /\ \E data \in ChunksNow :
           /\ child' = handleOutputBody(child, data)
           /\ job' = [job EXCEPT !.chunks = Append(@, noted("stderr", data, child'))]
    /\ UNCHANGED <<mem, testsToRun, useLegacyPeerDeps, runCount, pc, i, k,
                   runTimestamp, results, dirs, files, trace, thrown, printed,
                   exitCode, abnormal>>

NextStreams ==
    \/ stdoutData
    \/ stderrData
    \/ ChildClose
    \/ ChildError

SpecStreams ==
    InitStreams /\ [][NextStreams]_vars

\* What the first n chunks wrote, in the order of arrival.
Accumulated(chunks, n) ==
    LET A[m \in 0..n] ==
            IF m = 0 THEN <<>> ELSE A[m - 1] \o chunks[m].data
    IN  A[n]

\* C22: with a kill signal given, SIGTERM is sent in the handler of a chunk exactly
\* when what stdout and stderr wrote up to and including that chunk contains the
\* kill signal and what they wrote before it does not; the buffer the search runs
\* on is the concatenation of the chunks of both streams in their order of arrival.
C22_KillOnChunkCompletingFirstOccurrence ==
    (job.kind = "measurePerformance" /\ truthy(child.killSignal)) =>
        /\ child.output = Accumulated(job.chunks, Len(job.chunks))
        /\ \A n \in DOMAIN job.chunks :
               LET before == IF n = 1 THEN 0 ELSE job.chunks[n - 1].kills
                   text == child.killSignal.text
                   completes ==
                       /\ includes(Accumulated(job.chunks, n), text)
                       /\ ~includes(Accumulated(job.chunks, n - 1), text)
               IN  job.chunks[n].kills - before = (IF completes THEN 1 ELSE 0)

\* C22 witness: the kill signal "ab" arrived as "a" on one stream and "b" on the
\* other, after a chunk that held none of it; SIGTERM was sent on the chunk "b".
C22_Witness ==
    /\ job.kind = "measurePerformance"
    /\ child.killSignal.text = <<"a", "b">>
    /\ Len(job.chunks) = 3
    /\ job.chunks[1].data = <<"b">>
    /\ job.chunks[2] = [stream |-> "stdout", data |-> <<"a">>, kills |-> 0]
    /\ job.chunks[3] = [stream |-> "stderr", data |-> <<"b">>, kills |-> 1]

---------------------------------------------------------------------------
\* The script under the assumption that what can happen does happen: a child that
\* runs eventually emits 'close' or 'error', a pending operating-system or prompt
\* call eventually settles, and the event loop runs the continuation of a settled
\* await.  No step can be repeated forever, so weak fairness of the step relation
\* says just that.
\* typeCheck stands for the tasks that are one measurePerformance call (the linter
\* is another), fileIo for the tasks that work in-process and can throw (image
\* processing is another).
InitFair ==
    /\ InitSequence
    /\ Selected \subseteq {"cleanInstall", "nextBuild", "typeCheck", "fileIo", "heavyScript"}

NextFair ==
    \/ handleOutput
    \/ ChildClose
    \/ ChildError
    \/ checkAndInstallDependencies
    \/ mainStart
    \/ startRun
    \/ runCleanInstall
    \/ runCleanInstallInstall
    \/ runCleanInstallReturn
    \/ nextBuild
    \/ nextBuildAfterInstall
    \/ runTypeScriptCheck
    \/ storeResolved
    \/ awaitRejected
    \/ runFileIoTest
    \/ runHeavyScript
    \/ persist
    \/ cleanup
    \/ mainReturn
    \/ entryCatch

SpecFair ==
    InitFair /\ [][NextFair]_vars /\ WF_vars(NextFair)

\* main is at the point where the report of the run is written, or past it.
AtPersist ==
    \/ pc = "tasks" /\ k > Len(TaskOrder)
    \/ pc = "cleanup"

\* All the runs were made and main returned.
AllRunsComplete ==
    pc = "done" /\ i = runCount + 1

\* C23: if nothing ever throws (no operation fails, no spawn fails), then from the
\* call of main on all runCount runs are eventually completed and main returns,
\* and each run that started its tasks is eventually finished (report written,
\* scratch directory removed, i advanced), whatever the exit codes of the
\* subprocesses.  There is no timeout: while a subprocess of the run has not
\* exited its promise is pending, also after SIGTERM was sent to it, main stays at
\* the await, and so main is never at Persist while a subprocess is running.
C23_RunsCompleteUnlessSubprocessHangs ==
    /\ [](thrown = "none") =>
           /\ (pc = "main") ~> AllRunsComplete
           /\ \A n \in 1..MaxRuns : (pc = "tasks" /\ i = n) ~> (i > n)
    /\ [](child.state = "running" =>
              /\ child.promise = "pending"
              /\ ~AtPersist
              /\ pc \in WaitPcs \cup {"direct"})
    /\ [][(pc \in WaitPcs /\ child.state = "running" /\ child'.state = "running")
              => <<pc, i, k, results, files, dirs>>' = <<pc, i, k, results, files, dirs>>]_vars

\* C23 witness: two runs were asked for and both were completed, the second with a
\* subprocess that exited with a non-zero code.
C23_Witness ==
    /\ AllRunsComplete
    /\ runCount = 2
    /\ thrown = "none"
    /\ \E x \in DOMAIN trace : trace[x].ev = "exit" /\ trace[x].code = 1

---------------------------------------------------------------------------
\* The nextBuild branch of main with the answers to the confirmation noted from
\* run to run.

\* Mutant of promptsConfirmInstall: the question is put once, in the first run
\* that comes to it.
promptsConfirmInstallOnce(tests, answers) ==
    ~arrayIncludes(tests, "cleanInstall") /\ answers = <<>>

\* if (!testsToRun.includes('cleanInstall')): whether main puts the question; the
\* answers of earlier runs are not consulted (no variable outlives an iteration).
promptsConfirmInstall(tests, answers) ==
    ~arrayIncludes(tests, "cleanInstall")

\* The answers given so far, each with the run it was given in.
confirmAnswers ==
    IF job.kind = "confirmInstall" THEN job.answers ELSE <<>>

\* The three tasks that come first in main, with nextBuild among them.
InitConfirm ==
    /\ InitSequence
    /\ Selected \subseteq {"cleanInstall", "nextBuild", "typeCheck"}
    /\ "nextBuild" \in Selected

\* The nextBuild branch of main, as in nextBuild, the answer noted.
nextBuildConfirm ==
    /\ AtTask("nextBuild")
    /\ IF promptsConfirmInstall(testsToRun, confirmAnswers)
       THEN \E confirmInstall \in BOOLEAN :
                LET asked == Append(trace, Event("confirm",
                                 IF confirmInstall THEN "yes" ELSE "no"))
                IN  /\ job' = [kind |-> "confirmInstall",
                               answers |-> Append(confirmAnswers,
                                               [run |-> i,
                                                confirmInstall |-> confirmInstall])]
                    /\ IF installFirst(confirmInstall)
                       THEN /\ trace' = Append(asked, Event("spawn", installCommand))
                            /\ child' = measurePerformance(installCommand,
                                                           NoKillSignal, "prerequisite")
                            /\ pc' = "nb_install"
                       ELSE runNextBuild(asked)
       ELSE /\ runNextBuild(trace)
            /\ job' = job
    /\ UNCHANGED <<mem, testsToRun, useLegacyPeerDeps, runCount, i, k, runTimestamp,
                   results, dirs, files, thrown, printed, exitCode, abnormal>>

NextConfirm ==
    \/ handleOutput
    \/ ChildClose
    \/ ChildError
    \/ checkAndInstallDependencies
    \/ mainStart
    \/ startRun
    \/ runCleanInstall
    \/ runCleanInstallInstall
    \/ runCleanInstallReturn
    \/ nextBuildConfirm
    \/ nextBuildAfterInstall
    \/ runTypeScriptCheck
    \/ storeResolved
    \/ awaitRejected
    \/ persist
    \/ cleanup
    \/ mainReturn
    \/ entryCatch

SpecConfirm ==
    InitConfirm /\ [][NextConfirm]_vars

\* Run n came to the nextBuild branch of main.
CameToNextBuild(n) ==
    \/ n < i
    \/ /\ n = i
       /\ pc \notin {"loop", "done"}
       /\ \E a \in DOMAIN trace :
              \/ trace[a].ev = "confirm"
              \/ trace[a] = Event("task", "nextBuild")

\* C24: with nextBuild selected and cleanInstall not, every run that comes to the
\* nextBuild branch puts the question exactly once, so the runs made so far asked
\* as many times as they are; and in a run where the answer is no, "npm install"
\* is not spawned, the build is spawned, and once the build resolved its result is
\* in the report under nextBuild.
C24_ConfirmationAskedAnewInEveryRun ==
    (pc # "direct" /\ ~arrayIncludes(testsToRun, "cleanInstall")) =>
        /\ \A n \in 1..runCount :
               Cardinality({a \in DOMAIN confirmAnswers : confirmAnswers[a].run = n})
                   = (IF CameToNextBuild(n) THEN 1 ELSE 0)
        /\ (pc \notin {"loop", "done"} /\ At("confirm", "no") # {}) =>
               /\ confirmAnswers[Len(confirmAnswers)] =
                      [run |-> i, confirmInstall |-> FALSE]
               /\ At("spawn", installCommand) = {}
               /\ Cardinality(At("spawn", buildCommand)) = 1
               /\ Before(At("confirm", "no"), At("spawn", buildCommand))
               /\ pc \in {"tasks", "cleanup", "typeCheck"} =>
                      \E p \in DOMAIN results.benchmarks :
                          /\ results.benchmarks[p].key = "nextBuild"
                          /\ results.benchmarks[p].result.command = buildCommand

\* C24 witness: two runs, the answer was yes in the first and no in the second;
\* the second made no install and its report has the build under nextBuild.
C24_Witness ==
    /\ ~arrayIncludes(testsToRun, "cleanInstall")
    /\ confirmAnswers = <<[run |-> 1, confirmInstall |-> TRUE],
                          [run |-> 2, confirmInstall |-> FALSE]>>
    /\ pc = "cleanup"
    /\ At("spawn", installCommand) = {}
    /\ \E p \in DOMAIN results.benchmarks : results.benchmarks[p].key = "nextBuild"

=============================================================================
